---- MODULE Spec2Model ----
(***************************************************************************)
(* Model of app_senhas_gui.py: the password generator (gerar_senha,        *)
(* gerar_lista) and the session state of its window's event loop.          *)
(*                                                                         *)
(* A password is a sequence of one-character strings.  The outcome of a    *)
(* random function is the set of results it can return.                    *)
(***************************************************************************)
EXTENDS Integers, Sequences, FiniteSets, TLC

\* ------------------------------------------------------------ configuration

digits == <<"0","1","2","3","4","5","6","7","8","9">>

ascii_uppercase ==
    <<"A","B","C","D","E","F","G","H","I","J","K","L","M",
      "N","O","P","Q","R","S","T","U","V","W","X","Y","Z">>

ascii_lowercase ==
    <<"a","b","c","d","e","f","g","h","i","j","k","l","m",
      "n","o","p","q","r","s","t","u","v","w","x","y","z">>

CHARSET == digits \o ascii_uppercase \o ascii_lowercase

MIN_LENGTH == 1

MAX_LENGTH == 64

DEFAULT_LENGTH == 5

MAX_QTD == 10000

\* ------------------------------------------------------------------ bounds

\* Outcomes of the entropy source that are explored: the first MaxPick
\* characters of each of the three classes.
MaxPick == 1

\* Passwords are generated only for lengths up to MaxLen ...
MaxLen == 4

\* ... and batches only of up to MaxQtd passwords ...
MaxQtd == 3

\* ... while qtd * length is at most MaxChars.
MaxChars == 6

\* ----------------------------------------------------------------- helpers

Range(s) == {s[i] : i \in DOMAIN s}

Sample ==
    {digits[i] : i \in 1..MaxPick} \cup {ascii_uppercase[i] : i \in 1..MaxPick}
        \cup {ascii_lowercase[i] : i \in 1..MaxPick}

Sampled(c) == c \in Sample

\* secrets.choice(seq): one element of seq.
choice(seq) == {seq[i] : i \in {k \in DOMAIN seq : Sampled(seq[k])}}

\* The results of  ''.join(secrets.choice(seq) for _ in range(n)).
Draws(seq, n) == [1..n -> choice(seq)]

\* A swap that overwrites x[i] and loses its old value.
SwapPerde(x, i, j) == [x EXCEPT ![i] = x[j]]

Swap(x, i, j) == [x EXCEPT ![i] = x[j], ![j] = x[i]]

\* random.shuffle, positions counted from 1:
\*   for i in reversed(range(1, len(x))): j = randbelow(i+1); x[i], x[j] = x[j], x[i]
RECURSIVE FisherYates(_, _)
FisherYates(x, i) ==
    IF i < 2 THEN {x}
    ELSE UNION {FisherYates(Swap(x, i, j), i - 1) : j \in 1..i}

shuffle(x) == FisherYates(x, Len(x))

\* ------------------------------------------------- arbitrary-precision ints
\* A Python int that may exceed the machine word is a little-endian sequence
\* of limbs in base Base, without leading zero limbs (zero is <<>>).

Base == 100 * 100

RECURSIVE ToBig(_)
ToBig(n) == IF n = 0 THEN <<>> ELSE <<n % Base>> \o ToBig(n \div Base)

\* a * m + carry for a small m, as the limbs of the low Len(a) positions and
\* the carry out of them; the sequence is halved, the low half first.
RECURSIVE MulCarry(_, _, _)
MulCarry(a, m, carry) ==
    IF a = <<>> THEN [limbs |-> <<>>, carry |-> carry]
    ELSE IF Len(a) = 1
    THEN LET t == a[1] * m + carry
         IN  [limbs |-> <<t % Base>>, carry |-> t \div Base]
    ELSE LET h  == Len(a) \div 2
             lo == MulCarry(SubSeq(a, 1, h), m, carry)
             hi == MulCarry(SubSeq(a, h + 1, Len(a)), m, lo.carry)
         IN  [limbs |-> lo.limbs \o hi.limbs, carry |-> hi.carry]

MulSmall(a, m) == LET r == MulCarry(a, m, 0) IN r.limbs \o ToBig(r.carry)

\* x * m^n, by halving n: the first half is computed before the second starts.
RECURSIVE Times(_, _, _)
Times(x, m, n) ==
    IF n = 0 THEN x
    ELSE IF n = 1 THEN MulSmall(x, m)
    ELSE LET y == Times(x, m, n \div 2)
         IN  IF y = <<>> THEN <<>> ELSE Times(y, m, n - (n \div 2))

Pow(b, n) == Times(<<1>>, b, n)

RECURSIVE BigLessFrom(_, _, _)
BigLessFrom(a, b, i) ==
    IF i = 0 THEN FALSE
    ELSE IF a[i] # b[i] THEN a[i] < b[i]
    ELSE BigLessFrom(a, b, i - 1)

BigLess(a, b) ==
    IF Len(a) # Len(b) THEN Len(a) < Len(b) ELSE BigLessFrom(a, b, Len(a))

\* ------------------------------------------------------------ return values

NoValue == <<>>

Ok(v) == [tipo |-> "ok", erro |-> "", valor |-> v, qtd |-> 0, total |-> <<>>]

Erro(e) == [tipo |-> "erro", erro |-> e, valor |-> NoValue, qtd |-> 0, total |-> <<>>]

ErroUnicas(q, t) ==
    [tipo |-> "erro", erro |-> "InfeasibleUniqueRequest", valor |-> NoValue,
     qtd |-> q, total |-> t]

Pendente == [tipo |-> "pendente", erro |-> "", valor |-> NoValue, qtd |-> 0, total |-> <<>>]

\* ---------------------------------------------------------------- predicates

IsDigit(c) == c \in Range(digits)

IsUpper(c) == c \in Range(ascii_uppercase)

IsLower(c) == c \in Range(ascii_lowercase)

\* ------------------------------------------------------------- gerar_senha

\* gerar_senha drawing one character too few when no class is required.
gerar_senha_curta(length, require_all) ==
    IF length < MIN_LENGTH \/ length > MAX_LENGTH
    THEN {Erro("InvalidLength")}
    ELSE IF require_all /\ length < 3
    THEN {Erro("InsufficientLengthForPolicy")}
    ELSE IF ~require_all
    THEN {Ok(s) : s \in Draws(CHARSET, length - 1)}
    ELSE LET iniciais == {<<d, u, l>> : d \in choice(digits),
                                       u \in choice(ascii_uppercase),
                                       l \in choice(ascii_lowercase)}
             partes   == {p \o r : p \in iniciais, r \in Draws(CHARSET, length - 3)}
         IN  {Ok(s) : s \in UNION {shuffle(p) : p \in partes}}

\* gerar_senha checking the composition rule before the length range.
gerar_senha_ordem(length, require_all) ==
    IF require_all /\ length < 3
    THEN {Erro("InsufficientLengthForPolicy")}
    ELSE IF length < MIN_LENGTH \/ length > MAX_LENGTH
    THEN {Erro("InvalidLength")}
    ELSE IF ~require_all
    THEN {Ok(s) : s \in Draws(CHARSET, length)}
    ELSE LET iniciais == {<<d, u, l>> : d \in choice(digits),
                                       u \in choice(ascii_uppercase),
                                       l \in choice(ascii_lowercase)}
             partes   == {p \o r : p \in iniciais, r \in Draws(CHARSET, length - 3)}
         IN  {Ok(s) : s \in UNION {shuffle(p) : p \in partes}}

\* The results gerar_senha(length, require_all) can return or raise.
gerar_senha(length, require_all) ==
    IF length < MIN_LENGTH \/ length > MAX_LENGTH
    THEN {Erro("InvalidLength")}
    ELSE IF require_all /\ length < 3
    THEN {Erro("InsufficientLengthForPolicy")}
    ELSE IF ~require_all
    THEN {Ok(s) : s \in Draws(CHARSET, length)}
    ELSE LET iniciais == {<<d, u, l>> : d \in choice(digits),
                                       u \in choice(ascii_uppercase),
                                       l \in choice(ascii_lowercase)}
             partes   == {p \o r : p \in iniciais, r \in Draws(CHARSET, length - 3)}
         IN  {Ok(s) : s \in UNION {shuffle(p) : p \in partes}}

\* ------------------------------------------------------------- gerar_lista

\* What the calls of gerar_senha made by the loops of gerar_lista can return,
\* for each length and policy whose generation is followed.
senhas_possiveis ==
    [length \in MIN_LENGTH..MaxLen, require_all \in BOOLEAN |->
        gerar_senha(length, require_all)]

\* The power kept in a single limb: an integer that wraps at Base.
total_combinacoes_estreito(length) ==
    LET t == Pow(Len(CHARSET), length) IN IF t[1] = 0 THEN <<>> ELSE <<t[1]>>

\* total_combinacoes = len(CHARSET) ** length
total_combinacoes(length) == Pow(Len(CHARSET), length)

\* validar_lista with the composition rule asking for length >= 2 only.
validar_lista_limiar(qtd, length, unique, require_all) ==
    IF qtd < 1 \/ qtd > MAX_QTD
    THEN Erro("InvalidCount")
    ELSE IF length < MIN_LENGTH \/ length > MAX_LENGTH
    THEN Erro("InvalidLength")
    ELSE IF require_all /\ length < 2
    THEN Erro("InsufficientLengthForPolicy")
    ELSE IF unique /\ BigLess(total_combinacoes(length), ToBig(qtd))
    THEN ErroUnicas(qtd, total_combinacoes(length))
    ELSE Pendente

\* validar_lista checking the length before the count.
validar_lista_ordem(qtd, length, unique, require_all) ==
    IF length < MIN_LENGTH \/ length > MAX_LENGTH
    THEN Erro("InvalidLength")
    ELSE IF qtd < 1 \/ qtd > MAX_QTD
    THEN Erro("InvalidCount")
    ELSE IF require_all /\ length < 3
    THEN Erro("InsufficientLengthForPolicy")
    ELSE IF unique /\ BigLess(total_combinacoes(length), ToBig(qtd))
    THEN ErroUnicas(qtd, total_combinacoes(length))
    ELSE Pendente

\* Lines 47-61: the checks gerar_lista makes before generating anything.
validar_lista(qtd, length, unique, require_all) ==
    IF qtd < 1 \/ qtd > MAX_QTD
    THEN Erro("InvalidCount")
    ELSE IF length < MIN_LENGTH \/ length > MAX_LENGTH
    THEN Erro("InvalidLength")
    ELSE IF require_all /\ length < 3
    THEN Erro("InsufficientLengthForPolicy")
    ELSE IF unique /\ BigLess(total_combinacoes(length), ToBig(qtd))
    THEN ErroUnicas(qtd, total_combinacoes(length))
    ELSE Pendente

\* A list built by inserting each new password at the front.
acrescentar_inicio(lista_, s) == <<s>> \o lista_

\* The list comprehension of line 64 appends each new password.
acrescentar(lista_, s) == Append(lista_, s)

\* A set that keeps only the password added last.
adicionar_substitui(senhas_, s) == {s}

\* senhas.add(...)
adicionar(senhas_, s) == senhas_ \cup {s}

\* The loop of line 68 stopping one password early.
continua_unicas_menos(senhas_, qtd) == Cardinality(senhas_) < qtd - 1

\* while len(senhas) < qtd
continua_unicas(senhas_, qtd) == Cardinality(senhas_) < qtd

\* list(senhas): the elements of the set in an order the caller cannot choose.
list(senhas_) ==
    {l \in [1..Cardinality(senhas_) -> senhas_] : Range(l) = senhas_}

\* ----------------------------------------------------------------- state

VARIABLES
    pc,             \* "idle", or "lista" inside the loops of gerar_lista
    origem,         \* caller of the running gerar_lista: "api" or "gui"
    chamada,        \* the current (or last) call and its arguments
    lista,          \* the list being built by line 64
    senhas,         \* the set being filled by lines 67-69
    retorno,        \* what the last call made by the "api" caller returned
    senhas_atuais,  \* line 134
    ultimo_arquivo, \* line 135
    ultimo_length,  \* line 136
    out,            \* the lines shown by the "-OUT-" element
    gravado         \* the last file salvar_csv wrote completely: its path and rows

vars == <<pc, origem, chamada, lista, senhas, retorno,
          senhas_atuais, ultimo_arquivo, ultimo_length, out, gravado>>

sessao == <<senhas_atuais, ultimo_arquivo, ultimo_length, out, gravado>>

None == "None"

Chamada(fn, qtd, length, unique, require_all) ==
    [fn |-> fn, qtd |-> qtd, length |-> length, unique |-> unique,
     require_all |-> require_all]

Init ==
    /\ pc = "idle"
    /\ origem = "api"
    /\ chamada = Chamada("none", 0, 0, FALSE, FALSE)
    /\ lista = <<>>
    /\ senhas = {}
    /\ retorno = Pendente
    /\ senhas_atuais = <<>>
    /\ ultimo_arquivo = None
    /\ ultimo_length = DEFAULT_LENGTH
    /\ out = <<>>
    /\ gravado = [caminho |-> None, linhas |-> <<>>]

\* ------------------------------------------------------------------ inputs

Lengths == (MIN_LENGTH - 2)..(MAX_LENGTH + 1)

Qtds == (-1..(MaxQtd + 1)) \cup {62, 63, 3844, 3845, MAX_QTD, MAX_QTD + 1}

\* The requests whose generation is explored.
Exploravel(c) ==
    c.length <= MaxLen /\ c.qtd <= MaxQtd /\ c.qtd * c.length <= MaxChars

\* ----------------------------------------------------------------- actions

\* The core keeps nothing between calls (only the entropy source), so one
\* call is followed from the state in which no call has been made yet.
Fresh == pc = "idle" /\ chamada.fn = "none"

\* A direct call of gerar_senha.
ChamarGerarSenha(length, require_all) ==
    /\ length \in MIN_LENGTH..MAX_LENGTH => length <= MaxLen
    /\ chamada' = Chamada("gerar_senha", 0, length, FALSE, require_all)
    /\ \E r \in gerar_senha(length, require_all) : retorno' = r
    /\ origem' = "api"
    /\ UNCHANGED <<pc, lista, senhas, sessao>>

\* Lines 181-183: the summary, an empty line, then one line per password.
Exibir(senhas_, length) ==
    <<[resumo |-> TRUE, n |-> Len(senhas_), length |-> length], <<>>>> \o senhas_

\* The handler without line 184: ultimo_arquivo survives a new generation.
AposGerar_sem_reset(r) ==
    IF r.tipo = "erro"
    THEN UNCHANGED sessao
    ELSE /\ senhas_atuais' = r.valor
         /\ ultimo_length' = chamada.length
         /\ out' = Exibir(r.valor, chamada.length)
         /\ UNCHANGED <<ultimo_arquivo, gravado>>

\* Lines 167-184: what the "-GERAR-" handler does once gerar_lista has
\* returned or raised r.
AposGerar(r) ==
    IF r.tipo = "erro"
    THEN UNCHANGED sessao
    ELSE /\ senhas_atuais' = r.valor
         /\ ultimo_length' = chamada.length
         /\ out' = Exibir(r.valor, chamada.length)
         /\ ultimo_arquivo' = None
         /\ UNCHANGED gravado

\* The return (or raise) of gerar_lista to its caller.
Devolver(r) ==
    /\ pc' = "idle"
    /\ lista' = <<>>
    /\ senhas' = {}
    /\ IF origem = "api"
       THEN /\ retorno' = r
            /\ UNCHANGED <<origem, chamada, sessao>>
       ELSE /\ AposGerar(r)
            /\ chamada' = Chamada("none", 0, 0, FALSE, FALSE)
            /\ UNCHANGED <<origem, retorno>>

\* A direct call of gerar_lista: lines 47-61, then into the loop of line 64
\* or of lines 67-69.
ChamarGerarLista(qtd, length, unique, require_all) ==
    /\ chamada' = Chamada("gerar_lista", qtd, length, unique, require_all)
    /\ origem' = "api"
    /\ LET v == validar_lista(qtd, length, unique, require_all)
       IN  IF v.tipo = "erro"
           THEN /\ retorno' = v
                /\ UNCHANGED <<pc, lista, senhas>>
           ELSE /\ pc' = "lista"
                /\ lista' = <<>>
                /\ senhas' = {}
                /\ retorno' = Pendente
    /\ UNCHANGED sessao

\* One iteration of  [gerar_senha(...) for _ in range(qtd)]  (line 64); the
\* last one returns the list.
IterarLista ==
    /\ pc = "lista"
    /\ ~chamada.unique
    /\ Len(lista) < chamada.qtd
    /\ Exploravel(chamada)
    /\ \E r \in senhas_possiveis[chamada.length, chamada.require_all] :
          IF r.tipo = "erro"
          THEN Devolver(r)
          ELSE LET nova == acrescentar(lista, r.valor)
               IN  IF Len(nova) < chamada.qtd
                   THEN /\ lista' = nova
                        /\ UNCHANGED <<pc, origem, chamada, senhas, retorno, sessao>>
                   ELSE Devolver(Ok(nova))

\* One iteration of  while len(senhas) < qtd: senhas.add(gerar_senha(...))
\* (lines 68-69); the one that ends the loop returns list(senhas) (line 70).
IterarUnicas ==
    /\ pc = "lista"
    /\ chamada.unique
    /\ continua_unicas(senhas, chamada.qtd)
    /\ Exploravel(chamada)
    /\ \E r \in senhas_possiveis[chamada.length, chamada.require_all] :
          IF r.tipo = "erro"
          THEN Devolver(r)
          ELSE LET novas == adicionar(senhas, r.valor)
               IN  IF continua_unicas(novas, chamada.qtd)
                   THEN /\ senhas' = novas
                        /\ UNCHANGED <<pc, origem, chamada, lista, retorno, sessao>>
                   ELSE \E l \in list(novas) : Devolver(Ok(l))

Next ==
    \/ /\ Fresh
       /\ \E length \in Lengths, require_all \in BOOLEAN :
             ChamarGerarSenha(length, require_all)
    \/ /\ Fresh
       /\ \E qtd \in Qtds, length \in Lengths, unique \in BOOLEAN,
             require_all \in BOOLEAN :
             ChamarGerarLista(qtd, length, unique, require_all)
    \/ IterarLista
    \/ IterarUnicas

Spec == Init /\ [][Next]_vars

\* -------------------------------------------------------------- event loop

\* str.strip() on a text given as a sequence of characters.
RECURSIVE LStrip(_)
LStrip(t) == IF t # <<>> /\ t[1] = " " THEN LStrip(Tail(t)) ELSE t

RECURSIVE RStrip(_)
RStrip(t) ==
    IF t # <<>> /\ t[Len(t)] = " " THEN RStrip(SubSeq(t, 1, Len(t) - 1)) ELSE t

strip(t) == LStrip(RStrip(t))

DigitValue(c) == (CHOOSE i \in DOMAIN digits : digits[i] = c) - 1

RECURSIVE Decimal(_)
Decimal(t) ==
    IF t = <<>> THEN 0
    ELSE 10 * Decimal(SubSeq(t, 1, Len(t) - 1)) + DigitValue(t[Len(t)])

\* int(text): an optional sign and decimal digits, ValueError otherwise.
int(text) ==
    LET t    == strip(text)
        sign == t # <<>> /\ t[1] \in {"+", "-"}
        d    == IF sign THEN Tail(t) ELSE t
    IN  IF d = <<>> \/ \E i \in DOMAIN d : ~IsDigit(d[i])
        THEN [ok |-> FALSE, valor |-> 0]
        ELSE [ok |-> TRUE,
              valor |-> IF sign /\ t[1] = "-" THEN 0 - Decimal(d) ELSE Decimal(d)]

\* What the user may have typed in "-QTD-" and "-LEN-".
QtdTextos ==
    {<<>>, <<"x">>, <<"0">>, <<"1">>, <<"2">>, <<" ", "2", " ">>, <<"-", "1">>,
     <<"1", "0", "0", "0", "1">>}

LenTextos == {<<>>, <<"x">>, <<"0">>, <<"1">>, <<" ", "1">>, <<"6", "5">>}

\* What the save dialog may return: a path, or nothing when cancelled.
Caminhos == {"a.csv", "b.csv"}

Cancelado == ""

\* Lines 72-78: the rows salvar_csv writes, the header first.
salvar_csv(senhas_) == <<<<"senha">>>> \o [i \in DOMAIN senhas_ |-> <<senhas_[i]>>]

nucleo == <<pc, origem, chamada, lista, senhas, retorno>>

\* "-GERAR-", lines 143-177: parse and check the inputs, then call
\* gerar_lista; lines 179-184 follow when it returns (AposGerar).
Gerar(qtdTexto, lenTexto, unq, req) ==
    /\ pc = "idle"
    /\ LET q   == int(qtdTexto)
           raw == strip(lenTexto)
           l   == IF raw = <<>> THEN [ok |-> TRUE, valor |-> 12] ELSE int(raw)
       IN  IF ~q.ok \/ ~l.ok \/ l.valor < MIN_LENGTH \/ l.valor > MAX_LENGTH
           THEN UNCHANGED vars
           ELSE LET v == validar_lista(q.valor, l.valor, unq, req)
                IN  IF v.tipo = "erro"
                    THEN UNCHANGED vars
                    ELSE /\ pc' = "lista"
                         /\ origem' = "gui"
                         /\ chamada' = Chamada("gerar_lista", q.valor, l.valor, unq, req)
                         /\ lista' = <<>>
                         /\ senhas' = {}
                         /\ UNCHANGED <<retorno, sessao>>

\* "-SALVAR-", lines 186-206.  falha: salvar_csv raises.
Salvar(caminho, falha) ==
    /\ pc = "idle"
    /\ IF senhas_atuais = <<>> \/ caminho = Cancelado \/ falha
       THEN UNCHANGED vars
       ELSE /\ gravado' = [caminho |-> caminho, linhas |-> salvar_csv(senhas_atuais)]
            /\ ultimo_arquivo' = caminho
            /\ UNCHANGED <<nucleo, senhas_atuais, ultimo_length, out>>

\* "-ABRIR-", lines 208-212: opens the folder of ultimo_arquivo or shows a
\* message; the session is not touched.
Abrir ==
    /\ pc = "idle"
    /\ UNCHANGED vars

\* "-LIMPAR-", lines 214-217.
Limpar ==
    /\ pc = "idle"
    /\ out' = <<>>
    /\ senhas_atuais' = <<>>
    /\ ultimo_arquivo' = None
    /\ UNCHANGED <<nucleo, ultimo_length, gravado>>

\* "-COPIA-ULT-" and "-COPIA-TOD-", lines 219-236: read out and senhas_atuais
\* and write the clipboard only.
Copiar ==
    /\ pc = "idle"
    /\ UNCHANGED vars

\* "Sair" or the window closed, lines 140-141.
Sair ==
    /\ pc = "idle"
    /\ pc' = "fechado"
    /\ UNCHANGED <<origem, chamada, lista, senhas, retorno, sessao>>

NextGUI ==
    \/ \E qtdTexto \in QtdTextos, lenTexto \in LenTextos, unq \in BOOLEAN, req \in BOOLEAN :
          Gerar(qtdTexto, lenTexto, unq, req)
    \/ \E caminho \in Caminhos \cup {Cancelado}, falha \in BOOLEAN : Salvar(caminho, falha)
    \/ Abrir
    \/ Limpar
    \/ Copiar
    \/ Sair
    \/ IterarLista
    \/ IterarUnicas

SpecGUI == Init /\ [][NextGUI]_vars

\* Fair random draws: an iteration of the unique loop that either adds a
\* password not yet in the set or completes the set has positive probability
\* whenever one exists, so it is not avoided forever.
Progresso ==
    /\ IterarUnicas
    /\ pc' = "idle" \/ Cardinality(senhas') > Cardinality(senhas)

LiveSpec == Init /\ [][Next]_vars /\ WF_vars(Progresso)

\* ------------------------------------------------------------------ claims

Alfabeto == Range(CHARSET)

SoAlfabeto(s) ==
    \A i \in DOMAIN s : s[i] \in Alfabeto /\ (IsDigit(s[i]) \/ IsUpper(s[i]) \/ IsLower(s[i]))

TemClasses(s) ==
    /\ \E i \in DOMAIN s : IsDigit(s[i])
    /\ \E i \in DOMAIN s : IsUpper(s[i])
    /\ \E i \in DOMAIN s : IsLower(s[i])

\* The contract of a single password of the given length and policy.
Contrato(s, length, require_all) ==
    /\ Len(s) = length
    /\ SoAlfabeto(s)
    /\ require_all => TemClasses(s)

SenhaChamada == chamada.fn = "gerar_senha"

ListaChamada == chamada.fn = "gerar_lista"

QtdValida == chamada.qtd >= 1 /\ chamada.qtd <= 10000

LengthValido == chamada.length >= 1 /\ chamada.length <= 64

\* C1: for every length in [1,64] without required classes, gerar_senha
\* returns a string of exactly that many characters, each one of the 62
\* characters of the alphabet (a digit, an uppercase or a lowercase letter).
C1_LengthAndAlphabet ==
    (SenhaChamada /\ LengthValido /\ ~chamada.require_all) =>
        /\ retorno.tipo = "ok"
        /\ Len(retorno.valor) = chamada.length
        /\ SoAlfabeto(retorno.valor)
        /\ Cardinality(Alfabeto) = 62

C1_Witness ==
    /\ SenhaChamada /\ ~chamada.require_all /\ chamada.length = 3
    /\ retorno.tipo = "ok"
    /\ TemClasses(retorno.valor)

\* C2: for every length in [3,64] with required classes, gerar_senha returns
\* a string of exactly that many alphabet characters holding at least one
\* digit, one uppercase and one lowercase letter, whatever was drawn and
\* however the shuffle went.
C2_AllClasses ==
    (SenhaChamada /\ LengthValido /\ chamada.length >= 3 /\ chamada.require_all) =>
        /\ retorno.tipo = "ok"
        /\ Len(retorno.valor) = chamada.length
        /\ SoAlfabeto(retorno.valor)
        /\ TemClasses(retorno.valor)

\* A shuffled result: a lowercase letter first, the only digit last.
C2_Witness ==
    /\ SenhaChamada /\ chamada.require_all /\ chamada.length = 4
    /\ retorno.tipo = "ok"
    /\ IsLower(retorno.valor[1])
    /\ IsDigit(retorno.valor[4])
    /\ \A i \in 1..3 : ~IsDigit(retorno.valor[i])

\* C3: gerar_senha fails with InvalidLength for every length outside [1,64],
\* with or without required classes (never InsufficientLengthForPolicy), and
\* returns no password.
C3_InvalidLength ==
    (SenhaChamada /\ ~LengthValido) =>
        /\ retorno.tipo = "erro"
        /\ retorno.erro = "InvalidLength"
        /\ retorno.valor = NoValue

C3_Witness ==
    /\ SenhaChamada /\ chamada.length = 0 /\ chamada.require_all
    /\ retorno.erro = "InvalidLength"

\* C4: with required classes and a length of 1 or 2, gerar_senha fails with
\* InsufficientLengthForPolicy and so does gerar_lista for a valid count;
\* without required classes the same lengths are accepted.
C4_InsufficientLength ==
    /\ (SenhaChamada /\ chamada.length \in {1, 2}) =>
          IF chamada.require_all
          THEN retorno.tipo = "erro" /\ retorno.erro = "InsufficientLengthForPolicy"
          ELSE retorno.tipo = "ok" /\ Len(retorno.valor) = chamada.length
    /\ (ListaChamada /\ QtdValida /\ chamada.length \in {1, 2}) =>
          IF chamada.require_all
          THEN /\ pc = "idle"
               /\ retorno.tipo = "erro"
               /\ retorno.erro = "InsufficientLengthForPolicy"
          ELSE /\ retorno.erro # "InsufficientLengthForPolicy"
               /\ ~chamada.unique => retorno.tipo # "erro"

C4_Witness ==
    /\ ListaChamada /\ chamada.qtd = 10000 /\ chamada.length = 2
    /\ chamada.unique /\ chamada.require_all
    /\ retorno.erro = "InsufficientLengthForPolicy"

\* C5: gerar_lista fails with InvalidCount for every count outside [1,10000],
\* whatever the other arguments are, and generates no password.
C5_InvalidCount ==
    (ListaChamada /\ ~QtdValida) =>
        /\ pc = "idle"
        /\ retorno.tipo = "erro"
        /\ retorno.erro = "InvalidCount"
        /\ retorno.valor = NoValue
        /\ lista = <<>>
        /\ senhas = {}

C5_Witness ==
    /\ ListaChamada /\ chamada.qtd = 10001 /\ chamada.length = 65
    /\ chamada.unique /\ chamada.require_all
    /\ retorno.erro = "InvalidCount"

\* qtd > 62^length.  62^3 = 238328 exceeds every valid count, and so does
\* every higher power.
Excede == chamada.length <= 2 /\ chamada.qtd > 62 ^ chamada.length

\* C6: for a valid count, length and policy, gerar_lista fails with
\* InfeasibleUniqueRequest exactly when unique is set and qtd > 62^length; the
\* error carries the requested count and the exact capacity; no length up to
\* 64 makes the capacity wrap.
C6_Infeasible ==
    (ListaChamada /\ QtdValida /\ LengthValido
        /\ (chamada.require_all => chamada.length >= 3)) =>
        IF chamada.unique /\ Excede
        THEN /\ pc = "idle"
             /\ retorno.tipo = "erro"
             /\ retorno.erro = "InfeasibleUniqueRequest"
             /\ retorno.qtd = chamada.qtd
             /\ retorno.total = <<62 ^ chamada.length>>
        ELSE retorno.tipo # "erro"

C6_Witness ==
    /\ ListaChamada /\ chamada.unique /\ chamada.length = 2 /\ chamada.qtd = 3845
    /\ retorno.erro = "InfeasibleUniqueRequest"
    /\ retorno.total = <<3844>>

\* C7: when gerar_lista with unique set returns, the result holds exactly qtd
\* pairwise distinct strings, each meeting the single-password contract.
C7_UniqueResult ==
    (ListaChamada /\ chamada.unique /\ retorno.tipo = "ok") =>
        /\ Len(retorno.valor) = chamada.qtd
        /\ \A i, j \in DOMAIN retorno.valor : i # j => retorno.valor[i] # retorno.valor[j]
        /\ \A i \in DOMAIN retorno.valor :
              Contrato(retorno.valor[i], chamada.length, chamada.require_all)

C7_Witness ==
    /\ ListaChamada /\ chamada.unique /\ chamada.require_all
    /\ chamada.qtd = 2 /\ chamada.length = 3
    /\ retorno.tipo = "ok"

C8_Passo ==
    (pc = "lista" /\ ~chamada.unique) =>
        LET nova == IF pc' = "lista" THEN lista' ELSE retorno'.valor
            s    == nova[Len(nova)]
        IN  /\ pc' = "idle" => retorno'.tipo = "ok"
            /\ nova # <<>>
            /\ nova = Append(lista, s)
            /\ Ok(s) \in senhas_possiveis[chamada.length, chamada.require_all]
            /\ Contrato(s, chamada.length, chamada.require_all)
            /\ IF pc' = "lista"
               THEN Len(nova) < chamada.qtd
               ELSE pc' = "idle" /\ Len(nova) = chamada.qtd

\* C8: gerar_lista without unique returns exactly qtd strings in generation
\* order: every step of its loop puts one result of gerar_senha (same length
\* and policy) at the end of the list, and the list is returned as it is when
\* it holds qtd of them, equal strings included.
C8_OrderedResult == [][C8_Passo]_vars

\* A returned list that holds the same string twice.
C8_Witness ==
    /\ ListaChamada /\ ~chamada.unique /\ chamada.qtd = 2
    /\ retorno.tipo = "ok"
    /\ retorno.valor[1] = retorno.valor[2]

LacoUnicas == pc = "lista" /\ chamada.unique

C9_Falta ==
    LacoUnicas =>
        /\ ~BigLess(total_combinacoes(chamada.length), ToBig(chamada.qtd))
        /\ Cardinality(senhas) < chamada.qtd
        /\ Exploravel(chamada) =>
              \E r \in senhas_possiveis[chamada.length, chamada.require_all] :
                  r.tipo = "ok" /\ r.valor \notin senhas

C9_NaoEncolhe == (LacoUnicas /\ pc' = "lista") => senhas \subseteq senhas'

\* C9: the loop of gerar_lista with unique set terminates under fair draws:
\* in every state of the loop the count is within the capacity, fewer than
\* qtd passwords are collected and gerar_senha can still produce one that is
\* not in the set; the set never shrinks; and the call returns its list.
C9_Terminates ==
    /\ []C9_Falta
    /\ [][C9_NaoEncolhe]_vars
    /\ (LacoUnicas /\ Exploravel(chamada)) ~> (pc = "idle" /\ retorno.tipo = "ok")

\* The sample is exhausted: as many passwords as the draws can yield.
C9_Witness ==
    /\ ListaChamada /\ chamada.unique /\ ~chamada.require_all
    /\ chamada.qtd = 3 /\ chamada.length = 1
    /\ retorno.tipo = "ok" /\ Len(retorno.valor) = 3

C10_Sessao ==
    ultimo_arquivo # None =>
        /\ senhas_atuais # <<>>
        /\ gravado.caminho = ultimo_arquivo
        /\ Len(gravado.linhas) = Len(senhas_atuais) + 1
        /\ gravado.linhas[1] = <<"senha">>
        /\ \A i \in DOMAIN senhas_atuais : gravado.linhas[i + 1] = <<senhas_atuais[i]>>

C10_Passo ==
    /\ senhas_atuais' # senhas_atuais => ultimo_arquivo' = None
    /\ ultimo_arquivo' # ultimo_arquivo =>
          \/ ultimo_arquivo' = None
          \/ senhas_atuais' = senhas_atuais /\ senhas_atuais # <<>>

\* C10: whenever ultimo_arquivo is set, senhas_atuais is not empty and is
\* exactly the list written to that file; senhas_atuais changes only together
\* with a reset of ultimo_arquivo (a successful Gerar, Limpar), and
\* ultimo_arquivo is set only by a Salvar that wrote the unchanged list.
C10_LastExport == []C10_Sessao /\ [][C10_Passo]_vars

\* A list holding the same password twice, saved under the second path.
C10_Witness ==
    /\ ultimo_arquivo = "b.csv"
    /\ Len(senhas_atuais) = 2
    /\ senhas_atuais[1] = senhas_atuais[2]
    /\ pc = "idle"

====
